---------------------------- MODULE Spec2Model ----------------------------
(***************************************************************************)
(* PaginatedMediaGallery (web-stories-wp): the infinite-scroll controller  *)
(* of the media gallery, as a timed state machine.                        *)
(*                                                                         *)
(* One action is one task of the browser's event loop: a commit of the    *)
(* component (render + ref callback + layout effects + effects), a DOM    *)
(* event, or the expiry of one timer.  Time passes only in Tick; a timer  *)
(* whose remaining time is 0 is due and has to run before time advances.  *)
(* A timer is a sequence: <<>> when not armed, else one record per armed  *)
(* timeout, in the order of arming.                                       *)
(***************************************************************************)
EXTENDS Integers, Sequences, FiniteSets, TLC

VARIABLES
    mounted,            \* the component is mounted
    hasMore,            \* prop hasMore of the last render
    isMediaLoading,     \* prop isMediaLoading of the last render
    isMediaLoaded,      \* prop isMediaLoaded of the last render
    node,               \* refContainer.current is an element
    scrollbar,          \* width the platform gives a vertical scrollbar (0: overlay)
    scrollbarWidth,     \* state scrollbarWidth
    paddingRight,       \* style['padding-right'] of the container, if set
    geom,               \* scrollHeight, scrollTop, clientHeight of the container
    listeners,          \* attached [scroll, resize] listeners of the component
    settleTimers,       \* pending sleep(200) timeouts, each with its callback
    debounceTimer,      \* pending timeout of useDebouncedCallback
    pillTimer,          \* pending showLoadingTimeout
    showLoadingPill,    \* state showLoadingPill
    loadingFor,         \* history: time isMediaLoading /\ hasMore held without a break
    lastEvent,          \* history: time since the last scroll/resize event
    lastEval,           \* history: the evaluation run by the last step, if any
    outstanding,        \* history: a signal was emitted and no load has completed since
    step,               \* history: name of the last step
    textElement,        \* the text element of a Moveable resize, if one is selected
    call,               \* the last call of updateForResizeEvent, if any
    result              \* what that call returned

vars == <<mounted, hasMore, isMediaLoading, isMediaLoaded, node,
          scrollbar, scrollbarWidth, paddingRight, geom,
          listeners, settleTimers, debounceTimer, pillTimer, showLoadingPill,
          loadingFor, lastEvent, lastEval, outstanding, step,
          textElement, call, result>>

(* ------------------------------ constants ------------------------------ *)

ROOT_MARGIN == 300

SHOW_LOADING_PILL_DELAY_MS == 1000

DEBOUNCE_MS == 500

SETTLE_MS == 200

(* ------------------------------- bounds -------------------------------- *)

\* Largest number of sleep(200) timeouts pending at once.
MaxTimers == 2

\* Container geometries: heights and scroll offsets the DOM can report.
Heights == {200, 1000}

ScrollTops == {0, 499, 500, 750}

Geometries ==
    {g \in [scrollHeight : Heights, scrollTop : ScrollTops, clientHeight : Heights] :
        /\ g.clientHeight <= g.scrollHeight
        /\ g.scrollTop <= g.scrollHeight - g.clientHeight}

\* The geometry recorded while there is no container to measure.
NoGeometry == [scrollHeight |-> 200, scrollTop |-> 0, clientHeight |-> 200]

\* The computed padding-left of the container, in px.
PaddingLeft == 24

\* Width of a vertical scrollbar that takes room in the container, in px.
ScrollbarPx == 15

\* Text elements and resize events.  Font sizes and text heights are in
\* tenths of a px, widths and heights of the element in px.
ElementWidths == {200}

\* 0 stands for a width the event does not give (0 or undefined).
NewWidths == {0, 300}

NewHeights == {100, 150}

FontSizes == {114, 116, 130}

TextHeights == {404, 1000}

Directions == {-1, 0, 1} \X {-1, 0, 1}

\* <<>> stands for a call without delta.
Deltas == {<<>>} \cup ({-1, 0, 1} \X {-1, 0, 1})

\* resizeRules.minFontSize, in tenths of a px.
MinFontSize == 120

\* A text element, as far as the handler sees it: its width, and what the
\* text measurements return for it.
Elements ==
    [width : ElementWidths,
     fit : [(ElementWidths \cup (NewWidths \ {0})) \X NewHeights -> FontSizes],
     textHeight : [NewWidths -> TextHeights]]

(* ------------------------------ helpers -------------------------------- *)

Min(a, b) == IF a <= b THEN a ELSE b

RECURSIVE GCD(_, _)
GCD(a, b) == IF b = 0 THEN a ELSE GCD(b, a % b)

\* The grid of time: every delay of the component is a multiple of it, so the
\* expiries of timers armed on the grid stay on the grid.
TimeUnit == GCD(GCD(SETTLE_MS, DEBOUNCE_MS), SHOW_LOADING_PILL_DELAY_MS)

\* The values a loadNextPageIfNeeded callback closes over.
Closure(h, ld, lg) == [hasMore |-> h, isMediaLoaded |-> ld, isMediaLoading |-> lg]

Closures == [hasMore : BOOLEAN, isMediaLoaded : BOOLEAN, isMediaLoading : BOOLEAN]

CurrentClosure == Closure(hasMore, isMediaLoaded, isMediaLoading)

\* Bottom with the margin forgotten.
BottomNoMargin(g) == g.scrollHeight - g.scrollTop <= g.clientHeight

\* Bottom with a strict comparison.
BottomStrict(g) == g.scrollHeight - g.scrollTop < g.clientHeight + ROOT_MARGIN

\* Bottom with the margin subtracted from the visible height.
BottomInsideMargin(g) == g.scrollHeight - g.scrollTop <= g.clientHeight - ROOT_MARGIN

\* refCallbackContainer returning before it stores a null element.
RefCallbackContainerKeeps(element) == TRUE

\* refCallbackContainer: refContainer.current = element.  element is FALSE for
\* null: on unmount, and when the container renders no DOM element.
RefCallbackContainer(element) == element

\* element.offsetWidth - element.clientWidth: the container shows a vertical
\* scrollbar, sb wide, while its content overflows it.
OffsetMinusClientWidth(sb, g) == IF g.scrollHeight > g.clientHeight THEN sb ELSE 0

\* refCallbackContainer, after the ref is stored: a null element returns, any
\* other sets the state scrollbarWidth (w is its value before).
SetScrollbarWidth(element, w, sb, g) ==
    IF element THEN OffsetMinusClientWidth(sb, g) ELSE w

\* The layout effect with dependencies [scrollbarWidth, refContainer], in a
\* commit where scrollbarWidth goes from was to w: it runs if w changed, and
\* returns before it touches the style if w is 0.
PaddingEffect(was, w, pr) ==
    IF w = was THEN pr
    ELSE IF w = 0 THEN pr
    ELSE <<PaddingLeft - w>>

\* node.scrollHeight - node.scrollTop <= node.clientHeight + ROOT_MARGIN
Bottom(g) == g.scrollHeight - g.scrollTop <= g.clientHeight + ROOT_MARGIN

\* node.clientHeight === node.scrollHeight
NotFull(g) == g.clientHeight = g.scrollHeight

\* loadNextPageIfNeeded: the statement that ends a run of the callback.
Branch(cb, n, g) ==
    IF ~n \/ ~cb.hasMore \/ ~cb.isMediaLoaded \/ cb.isMediaLoading THEN "guard"
    ELSE IF Bottom(g) THEN "bottom"
    ELSE IF NotFull(g) THEN "notFull"
    ELSE "end"

\* loadNextPageIfNeeded without the test of the container ref.
LoadNextPageIfNeededNoRef(cb, n, g) ==
    IF ~cb.hasMore \/ ~cb.isMediaLoaded \/ cb.isMediaLoading THEN 0
    ELSE IF Bottom(g) THEN 1
    ELSE IF NotFull(g) THEN 1
    ELSE 0

\* loadNextPageIfNeeded returning early on a container that was never scrolled.
LoadNextPageIfNeededScrolled(cb, n, g) ==
    IF ~n \/ ~cb.hasMore \/ ~cb.isMediaLoaded \/ cb.isMediaLoading THEN 0
    ELSE IF g.scrollTop = 0 THEN 0
    ELSE IF Bottom(g) THEN 1
    ELSE IF NotFull(g) THEN 1
    ELSE 0

\* loadNextPageIfNeeded: the number of setNextPage() calls of one run of the
\* callback created by a render with props cb, on container n with geometry g.
LoadNextPageIfNeeded(cb, n, g) ==
    IF ~n \/ ~cb.hasMore \/ ~cb.isMediaLoaded \/ cb.isMediaLoading THEN 0
    ELSE IF Bottom(g) THEN 1
    ELSE IF NotFull(g) THEN 1
    ELSE 0

\* The record of one run of loadNextPageIfNeeded.
Evaluation(src, cb, n, g) ==
    <<[source |-> src, cb |-> cb, calls |-> LoadNextPageIfNeeded(cb, n, g)]>>

\* loadNextPageIfNeededAfterGalleryRendering() never calling the callback.
SleepNever(timers, cb) == timers

\* loadNextPageIfNeededAfterGalleryRendering(): sleep(200), then the callback
\* of this render.  The timeout is not kept anywhere, so nothing clears it.
Sleep(timers, cb) == Append(timers, [rem |-> SETTLE_MS, cb |-> cb])

\* The layout effect without its dependency list: it runs after every render.
SettleEffectEveryRender(timers, changed, cb) == Sleep(timers, cb)

\* The layout effect with dependency [loadNextPageIfNeeded]: it runs when the
\* callback was re-created, and has no cleanup.
SettleEffect(timers, changed, cb) == IF changed THEN Sleep(timers, cb) ELSE timers

\* The showLoadingPill effect without its cleanup: the timeout stays armed.
ClearTimeoutMissing(t) == t

\* clearTimeout(showLoadingTimeout), the cleanup of the showLoadingPill effect.
ClearTimeout(t) == <<>>

\* The showLoadingPill effect arming its timeout with twice the delay.
PillEffectTimerLate(lg, h) ==
    IF lg /\ h THEN <<[rem |-> 2 * SHOW_LOADING_PILL_DELAY_MS, value |-> lg]>> ELSE <<>>

\* Body of the showLoadingPill effect: the timeout it arms.
PillEffectTimer(lg, h) ==
    IF lg /\ h THEN <<[rem |-> SHOW_LOADING_PILL_DELAY_MS, value |-> lg]>> ELSE <<>>

\* Body of the showLoadingPill effect: the state it leaves.
PillEffectState(lg, h, shown) == IF lg /\ h THEN shown ELSE FALSE

\* The debounced handler arming a timeout without clearing the pending one.
HandleScrollOrResizeNoClear(t) == Append(t, [rem |-> DEBOUNCE_MS])

\* The debounced handler, called by a scroll or resize event: the pending
\* timeout is cleared and a new one armed.
HandleScrollOrResize(t) == <<[rem |-> DEBOUNCE_MS]>>

\* A dispatched scroll/resize event reaches the handler only if it is attached.
Dispatch(attached, t) == IF attached THEN HandleScrollOrResize(t) ELSE t

Rems(t) == {t[i].rem : i \in 1..Len(t)}

AllRems == Rems(settleTimers) \cup Rems(debounceTimer) \cup Rems(pillTimer)

Advance(t, d) == [i \in 1..Len(t) |-> [t[i] EXCEPT !.rem = @ - d]]

\* Bump of a capped history clock.
Elapsed(x, d, cap) == Min(x + d, cap)

\* The history clocks stop at the delay they are compared with.
PillCap == SHOW_LOADING_PILL_DELAY_MS

EventCap == DEBOUNCE_MS

\* The listener effect without a cleanup.
ListenerCleanupMissing(l) == l

\* Cleanup of the effect that attaches the scroll/resize listeners: the
\* effect returned one only if it attached them.
ListenerCleanup(l) ==
    IF l.scroll > 0 THEN [scroll |-> l.scroll - 1, resize |-> l.resize - 1] ELSE l

\* Body of that effect, on ref n.
ListenerEffect(l, n) ==
    IF n THEN [scroll |-> l.scroll + 1, resize |-> l.resize + 1] ELSE l

\* calculateFitTextFontSize(element, width, height)
CalculateFitTextFontSize(e, width, height) == e.fit[<<width, height>>]

\* calculateTextHeight(element, width)
CalculateTextHeight(e, width) == e.textHeight[width]

\* dataPixels(v): v rounded to a whole number of px.
DataPixels(v) == ((v + 5) \div 10) * 10

\* updateForResizeEvent testing the width direction first.
UpdateForResizeEventWidthFirst(e, direction, newWidth, newHeight, delta) ==
    LET isResizingWidth == direction[1] # 0
        isResizingHeight == direction[2] # 0
        isSizingUp == IF delta # <<>> THEN delta[1] + delta[2] > 0 ELSE TRUE
        fontSizeInDataPx ==
            DataPixels(CalculateFitTextFontSize(
                e, IF newWidth # 0 THEN newWidth ELSE e.width, newHeight))
    IN  IF isResizingWidth
        THEN <<[height |-> DataPixels(CalculateTextHeight(e, newWidth))]>>
        ELSE IF isResizingHeight
        THEN <<[fontSize |-> fontSizeInDataPx,
                skipUpdates |-> ~isSizingUp /\ fontSizeInDataPx < MinFontSize]>>
        ELSE <<>>

\* updateForResizeEvent comparing the font size before its conversion.
UpdateForResizeEventRawFontSize(e, direction, newWidth, newHeight, delta) ==
    LET isResizingWidth == direction[1] # 0
        isResizingHeight == direction[2] # 0
        isSizingUp == IF delta # <<>> THEN delta[1] + delta[2] > 0 ELSE TRUE
        fontSize ==
            CalculateFitTextFontSize(
                e, IF newWidth # 0 THEN newWidth ELSE e.width, newHeight)
    IN  IF isResizingHeight
        THEN <<[fontSize |-> DataPixels(fontSize),
                skipUpdates |-> ~isSizingUp /\ fontSize < MinFontSize]>>
        ELSE IF isResizingWidth
        THEN <<[height |-> DataPixels(CalculateTextHeight(e, newWidth))]>>
        ELSE <<>>

\* updateForResizeEvent(element, direction, newWidth, newHeight, delta): <<>>
\* for null, else the object returned.  direction[0], direction[1] of the
\* code are direction[1], direction[2] here, and so for delta.
UpdateForResizeEvent(e, direction, newWidth, newHeight, delta) ==
    LET isResizingWidth == direction[1] # 0
        isResizingHeight == direction[2] # 0
        isSizingUp == IF delta # <<>> THEN delta[1] + delta[2] > 0 ELSE TRUE
        fontSizeInDataPx ==
            DataPixels(CalculateFitTextFontSize(
                e, IF newWidth # 0 THEN newWidth ELSE e.width, newHeight))
    IN  IF isResizingHeight
        THEN <<[fontSize |-> fontSizeInDataPx,
                skipUpdates |-> ~isSizingUp /\ fontSizeInDataPx < MinFontSize]>>
        ELSE IF isResizingWidth
        THEN <<[height |-> DataPixels(CalculateTextHeight(e, newWidth))]>>
        ELSE <<>>

(* -------------------------------- Init --------------------------------- *)

\* The state after the first commit of the component, on a platform whose
\* scrollbars are sb wide.
Mount(sb) ==
    /\ textElement = <<>>
    /\ call = <<>>
    /\ result = <<>>
    /\ scrollbar = sb
    /\ mounted = TRUE
    /\ hasMore \in BOOLEAN
    /\ isMediaLoading \in BOOLEAN
    /\ isMediaLoaded \in BOOLEAN
    /\ \E element \in BOOLEAN : node = RefCallbackContainer(element)
    /\ geom \in {g \in Geometries : g.scrollTop = 0 /\ (node \/ g = NoGeometry)}
    /\ scrollbarWidth = SetScrollbarWidth(node, 0, sb, geom)
    /\ paddingRight = PaddingEffect(0, scrollbarWidth, <<>>)
    /\ listeners = ListenerEffect([scroll |-> 0, resize |-> 0], node)
    /\ settleTimers = SettleEffect(<<>>, TRUE, CurrentClosure)
    /\ debounceTimer = <<>>
    /\ pillTimer = PillEffectTimer(isMediaLoading, hasMore)
    /\ showLoadingPill = PillEffectState(isMediaLoading, hasMore, FALSE)
    /\ loadingFor = 0
    /\ lastEvent = <<>>
    /\ lastEval = <<>>
    /\ outstanding = FALSE
    /\ step = "Mount"

\* Overlay scrollbars: they take no room, the measured width is always 0.
Init == Mount(0)

\* Scrollbars that take room next to the content.
InitScrollbar == Mount(ScrollbarPx)

(* ------------------------------- actions ------------------------------- *)

\* A run of loadNextPageIfNeeded that called setNextPage() leaves a signal
\* outstanding.
Signalled(o, e) == o \/ (e # <<>> /\ e[1].calls > 0)

\* A commit in which isMediaLoading goes from was to lg: the signal is served
\* when the ResultSet leaves loading.
Served(o, was, lg) == o /\ ~(was /\ ~lg)

\* A scroll or resize event now: the history clock restarts if it is handled.
EventClock(attached, e) == IF attached THEN <<0>> ELSE e

\* A commit with new values of hasMore / isMediaLoaded / isMediaLoading:
\* loadNextPageIfNeeded and handleScrollOrResize are re-created.
PropsChange(h, ld, lg) ==
    /\ mounted
    /\ Closure(h, ld, lg) # CurrentClosure
    /\ Len(settleTimers) < MaxTimers
    /\ hasMore' = h
    /\ isMediaLoaded' = ld
    /\ isMediaLoading' = lg
    /\ node' = RefCallbackContainer(node)
    /\ scrollbarWidth' = SetScrollbarWidth(node', scrollbarWidth, scrollbar, geom)
    /\ paddingRight' = PaddingEffect(scrollbarWidth, scrollbarWidth', paddingRight)
    /\ settleTimers' = SettleEffect(settleTimers, TRUE, Closure(h, ld, lg))
    /\ listeners' = ListenerEffect(ListenerCleanup(listeners), node')
    /\ IF lg # isMediaLoading \/ h # hasMore
       THEN /\ pillTimer' = ClearTimeout(pillTimer) \o PillEffectTimer(lg, h)
            /\ showLoadingPill' = PillEffectState(lg, h, showLoadingPill)
       ELSE UNCHANGED <<pillTimer, showLoadingPill>>
    /\ loadingFor' = IF (lg /\ h) /\ (isMediaLoading /\ hasMore) THEN loadingFor ELSE 0
    /\ lastEval' = <<>>
    /\ outstanding' = Served(outstanding, isMediaLoading, lg)
    /\ step' = "PropsChange"
    /\ UNCHANGED <<textElement, call, result, scrollbar, mounted, geom, debounceTimer,
                   lastEvent>>

\* A commit in which only the identity of setNextPage changed: the callback
\* is re-created with the same props.
SetNextPageChange ==
    /\ mounted
    /\ Len(settleTimers) < MaxTimers
    /\ node' = RefCallbackContainer(node)
    /\ scrollbarWidth' = SetScrollbarWidth(node', scrollbarWidth, scrollbar, geom)
    /\ paddingRight' = PaddingEffect(scrollbarWidth, scrollbarWidth', paddingRight)
    /\ settleTimers' = SettleEffect(settleTimers, TRUE, CurrentClosure)
    /\ listeners' = ListenerEffect(ListenerCleanup(listeners), node')
    /\ lastEval' = <<>>
    /\ step' = "SetNextPageChange"
    /\ UNCHANGED <<textElement, call, result, scrollbar, outstanding, mounted, hasMore, isMediaLoading, isMediaLoaded, geom, debounceTimer, pillTimer,
                   showLoadingPill, loadingFor, lastEvent>>

\* A commit in which only the result sequence changed; the content height
\* changes with it, and a scroll offset beyond the new range is clamped.
ResourcesChange(g) ==
    /\ mounted
    /\ IF node
       THEN /\ g.clientHeight = geom.clientHeight
            /\ g.scrollHeight # geom.scrollHeight
            /\ g.scrollTop = Min(geom.scrollTop, g.scrollHeight - g.clientHeight)
       ELSE g = geom
    /\ geom' = g
    /\ node' = RefCallbackContainer(node)
    /\ scrollbarWidth' = SetScrollbarWidth(node', scrollbarWidth, scrollbar, geom')
    /\ paddingRight' = PaddingEffect(scrollbarWidth, scrollbarWidth', paddingRight)
    /\ settleTimers' = SettleEffect(settleTimers, FALSE, CurrentClosure)
    /\ debounceTimer' =
          Dispatch(g.scrollTop # geom.scrollTop /\ listeners.scroll > 0,
                   debounceTimer)
    /\ lastEvent' =
          EventClock(g.scrollTop # geom.scrollTop /\ listeners.scroll > 0, lastEvent)
    /\ lastEval' = <<>>
    /\ step' = "ResourcesChange"
    /\ UNCHANGED <<textElement, call, result, scrollbar, outstanding, mounted, hasMore, isMediaLoading, isMediaLoaded, listeners, pillTimer, showLoadingPill,
                   loadingFor>>

\* The scroll reset effect doing nothing.
ScrollToOriginMissing(n, g) == g

\* refContainer.current?.scrollTo(0, 0)
ScrollToOrigin(n, g) == IF n THEN [g EXCEPT !.scrollTop = 0] ELSE g

\* A commit with a new searchTerm or selectedCategoryId.
SearchChange ==
    /\ mounted
    /\ node' = RefCallbackContainer(node)
    /\ geom' = ScrollToOrigin(node', geom)
    /\ scrollbarWidth' = SetScrollbarWidth(node', scrollbarWidth, scrollbar, geom')
    /\ paddingRight' = PaddingEffect(scrollbarWidth, scrollbarWidth', paddingRight)
    /\ settleTimers' = SettleEffect(settleTimers, FALSE, CurrentClosure)
    /\ debounceTimer' =
          Dispatch(geom.scrollTop # 0 /\ listeners.scroll > 0,
                   debounceTimer)
    /\ lastEvent' = EventClock(geom.scrollTop # 0 /\ listeners.scroll > 0, lastEvent)
    /\ lastEval' = <<>>
    /\ step' = "SearchChange"
    /\ UNCHANGED <<textElement, call, result, scrollbar, outstanding, mounted, hasMore, isMediaLoading, isMediaLoaded, listeners,
                   pillTimer, showLoadingPill, loadingFor>>

\* The user scrolls the container: a scroll event.
Scroll(top) ==
    /\ mounted
    /\ node
    /\ top # geom.scrollTop
    /\ [geom EXCEPT !.scrollTop = top] \in Geometries
    /\ geom' = [geom EXCEPT !.scrollTop = top]
    /\ debounceTimer' = Dispatch(listeners.scroll > 0, debounceTimer)
    /\ lastEvent' = EventClock(listeners.scroll > 0, lastEvent)
    /\ lastEval' = <<>>
    /\ step' = "Scroll"
    /\ UNCHANGED <<textElement, call, result, scrollbar, scrollbarWidth, paddingRight, outstanding, mounted, hasMore, isMediaLoading, isMediaLoaded, node, listeners, settleTimers, pillTimer,
                   showLoadingPill, loadingFor>>

\* The window is resized: a resize event, and the container gets geometry g.
Resize(g) ==
    /\ mounted
    /\ IF node THEN g.clientHeight # geom.clientHeight ELSE g = geom
    /\ geom' = g
    /\ debounceTimer' = Dispatch(listeners.resize > 0, debounceTimer)
    /\ lastEvent' = EventClock(listeners.resize > 0, lastEvent)
    /\ lastEval' = <<>>
    /\ step' = "Resize"
    /\ UNCHANGED <<textElement, call, result, scrollbar, scrollbarWidth, paddingRight, outstanding, mounted, hasMore, isMediaLoading, isMediaLoaded, node, listeners, settleTimers, pillTimer,
                   showLoadingPill, loadingFor>>

\* The component is unmounted: the ref callback gets null, the effects with a
\* cleanup are cleaned up, and the debounce hook notes the unmount.  The
\* sleep(200) timeouts and the debounce timeout stay armed.
Unmount ==
    /\ mounted
    /\ mounted' = FALSE
    /\ node' = RefCallbackContainer(FALSE)
    /\ scrollbarWidth' = 0
    /\ paddingRight' = <<>>
    /\ listeners' = ListenerCleanup(listeners)
    /\ pillTimer' = ClearTimeout(pillTimer)
    /\ showLoadingPill' = FALSE
    /\ loadingFor' = 0
    /\ lastEval' = <<>>
    /\ step' = "Unmount"
    /\ UNCHANGED <<textElement, call, result, scrollbar, outstanding, hasMore, isMediaLoading, isMediaLoaded, geom, settleTimers, debounceTimer,
                   lastEvent>>

\* One unit of time passes; no timer is due.
Tick ==
    /\ 0 \notin AllRems
    /\ settleTimers' = Advance(settleTimers, TimeUnit)
    /\ debounceTimer' = Advance(debounceTimer, TimeUnit)
    /\ pillTimer' = Advance(pillTimer, TimeUnit)
    /\ loadingFor' = IF mounted /\ isMediaLoading /\ hasMore
                     THEN Elapsed(loadingFor, TimeUnit, PillCap) ELSE loadingFor
    /\ lastEvent' = IF lastEvent = <<>> THEN lastEvent
                    ELSE <<Elapsed(lastEvent[1], TimeUnit, EventCap)>>
    /\ lastEval' = <<>>
    /\ step' = "Tick"
    /\ UNCHANGED <<textElement, call, result, scrollbar, scrollbarWidth, paddingRight, outstanding, mounted, hasMore, isMediaLoading, isMediaLoaded, node, geom, listeners, showLoadingPill>>

\* The oldest sleep(200) expires: the callback of the render that armed it runs.
SettleFire ==
    /\ settleTimers # <<>>
    /\ Head(settleTimers).rem = 0
    /\ settleTimers' = Tail(settleTimers)
    /\ lastEval' = Evaluation("settle", Head(settleTimers).cb, node, geom)
    /\ outstanding' = Signalled(outstanding, lastEval')
    /\ step' = "SettleFire"
    /\ UNCHANGED <<textElement, call, result, scrollbar, scrollbarWidth, paddingRight, mounted, hasMore, isMediaLoading, isMediaLoaded, node, geom, listeners, debounceTimer,
                   pillTimer, showLoadingPill, loadingFor, lastEvent>>

\* What the expired debounce timeout runs.  The hook (use-debounce) calls the
\* callback of the last render, cur.  After the unmount the build decides: the
\* hook notes the unmount and calls nothing, or it calls the callback.
DebouncedCallbacks(isMounted, cur, n, g) ==
    IF isMounted
    THEN {Evaluation("debounce", cur, n, g)}
    ELSE {Evaluation("debounce", cur, n, g), <<>>}

\* The debounce timeout expires.
DebounceFire ==
    /\ debounceTimer # <<>>
    /\ debounceTimer[1].rem = 0
    /\ debounceTimer' = <<>>
    /\ lastEval' \in DebouncedCallbacks(mounted, CurrentClosure, node, geom)
    /\ outstanding' = Signalled(outstanding, lastEval')
    /\ step' = "DebounceFire"
    /\ UNCHANGED <<textElement, call, result, scrollbar, scrollbarWidth, paddingRight, mounted, hasMore, isMediaLoading, isMediaLoaded, node, geom, listeners, settleTimers,
                   pillTimer, showLoadingPill, loadingFor, lastEvent>>

\* showLoadingTimeout expires: setShowLoadingPill(isMediaLoading), with the
\* isMediaLoading of the render that armed it.
PillFire ==
    /\ pillTimer # <<>>
    /\ Head(pillTimer).rem = 0
    /\ pillTimer' = Tail(pillTimer)
    /\ showLoadingPill' = Head(pillTimer).value
    /\ lastEval' = <<>>
    /\ step' = "PillFire"
    /\ UNCHANGED <<textElement, call, result, scrollbar, scrollbarWidth, paddingRight, outstanding, mounted, hasMore, isMediaLoading, isMediaLoaded, node, geom, listeners, settleTimers,
                   debounceTimer, loadingFor, lastEvent>>

Next ==
    \/ \E h \in BOOLEAN, ld \in BOOLEAN, lg \in BOOLEAN : PropsChange(h, ld, lg)
    \/ SetNextPageChange
    \/ \E g \in Geometries : ResourcesChange(g)
    \/ SearchChange
    \/ \E top \in ScrollTops : Scroll(top)
    \/ \E g \in Geometries : Resize(g)
    \/ Unmount
    \/ Tick
    \/ SettleFire
    \/ DebounceFire
    \/ PillFire

Spec == Init /\ [][Next]_vars

\* The same component where scrollbars take room.
SpecScrollbar == InitScrollbar /\ [][Next]_vars


(* ------------------------ the text resize handler ----------------------- *)

\* A text element is selected; the media gallery is not rendered.
InitResize ==
    /\ textElement \in {<<e>> : e \in Elements}
    /\ call = <<>>
    /\ result = <<>>
    /\ mounted = FALSE
    /\ hasMore = FALSE
    /\ isMediaLoading = FALSE
    /\ isMediaLoaded = FALSE
    /\ node = FALSE
    /\ scrollbar = 0
    /\ scrollbarWidth = 0
    /\ paddingRight = <<>>
    /\ geom = NoGeometry
    /\ listeners = [scroll |-> 0, resize |-> 0]
    /\ settleTimers = <<>>
    /\ debounceTimer = <<>>
    /\ pillTimer = <<>>
    /\ showLoadingPill = FALSE
    /\ loadingFor = 0
    /\ lastEvent = <<>>
    /\ lastEval = <<>>
    /\ outstanding = FALSE
    /\ step = "Select"

\* Moveable reports a resize of the selected element: the callback runs.
\* The function keeps no state, so one call per element and event is followed.
OnResize(direction, newWidth, newHeight, delta) ==
    /\ textElement # <<>>
    /\ call = <<>>
    /\ call' = <<[direction |-> direction, newWidth |-> newWidth,
                  newHeight |-> newHeight, delta |-> delta]>>
    /\ result' = UpdateForResizeEvent(textElement[1], direction, newWidth, newHeight, delta)
    /\ UNCHANGED <<textElement, mounted, hasMore, isMediaLoading, isMediaLoaded, node,
                   scrollbar, scrollbarWidth, paddingRight, geom, listeners,
                   settleTimers, debounceTimer, pillTimer, showLoadingPill,
                   loadingFor, lastEvent, lastEval, outstanding, step>>

NextResize ==
    \E direction \in Directions, newWidth \in NewWidths,
       newHeight \in NewHeights, delta \in Deltas :
        OnResize(direction, newWidth, newHeight, delta)

SpecResize == InitResize /\ [][NextResize]_vars

(* ------------------------------- claims -------------------------------- *)

\* A run of loadNextPageIfNeeded in the last step called setNextPage().
Emitted == lastEval # <<>> /\ lastEval[1].calls > 0

\* Distance from the visible bottom of the container to the end of its content.
Distance(g) == g.scrollHeight - g.scrollTop - g.clientHeight

\* C1: while the current hasMore is false no load-next-page signal is
\* emitted, whichever timer runs the evaluation.
C1_NoSignalWithoutMore == Emitted => hasMore

\* C2: while the current isMediaLoading is true no load-next-page signal is
\* emitted, also by a render-settle timer armed before loading began.
C2_NoSignalWhileLoading == Emitted => ~isMediaLoading

\* C3: after a signal no second signal is emitted before the ResultSet has
\* been loading and has left loading again.
C3_OneSignalPerLoad == [][Emitted' => ~outstanding]_vars

\* C4 as claimed: an evaluation that runs while hasMore is true,
\* isMediaLoading is false and the container is within ROOT_MARGIN of its
\* bottom emits exactly one signal.
C4_Original ==
    (lastEval # <<>> /\ hasMore /\ ~isMediaLoading /\ Distance(geom) < ROOT_MARGIN)
        => lastEval[1].calls = 1

\* C4 as amended: an evaluation on a present container whose callback was
\* created with hasMore true, isMediaLoaded true and isMediaLoading false, run
\* within ROOT_MARGIN of the bottom, emits exactly one signal.
C4_NearBottomEmitsOnce ==
    (/\ lastEval # <<>>
     /\ node
     /\ lastEval[1].cb = Closure(TRUE, TRUE, FALSE)
     /\ Distance(geom) < ROOT_MARGIN)
        => lastEval[1].calls = 1

\* C4 witness: the evaluation on scrollHeight 1000, scrollTop 750,
\* clientHeight 200 emitted one signal.
C4_Witness ==
    /\ lastEval # <<>>
    /\ lastEval[1].cb = Closure(TRUE, TRUE, FALSE)
    /\ geom = [scrollHeight |-> 1000, scrollTop |-> 750, clientHeight |-> 200]
    /\ lastEval[1].calls = 1

\* C5 as claimed: an evaluation on a container without overflow, with hasMore
\* true, emits a signal.
C5_Original ==
    (lastEval # <<>> /\ node /\ geom.clientHeight = geom.scrollHeight /\ hasMore)
        => lastEval[1].calls >= 1

\* C5 as amended: the render-settle evaluation of a callback created with
\* hasMore true, isMediaLoaded true and isMediaLoading false emits a signal on
\* a present container without overflow, at scrollTop 0 and when no scroll or
\* resize event ever happened.
C5_NotFullEmits ==
    (/\ lastEval # <<>>
     /\ lastEval[1].source = "settle"
     /\ node
     /\ lastEval[1].cb = Closure(TRUE, TRUE, FALSE)
     /\ geom.clientHeight = geom.scrollHeight)
        => lastEval[1].calls >= 1

\* C5 witness: a signal from a container without overflow that never saw a
\* scroll or resize event.
C5_Witness ==
    /\ Emitted
    /\ lastEval[1].source = "settle"
    /\ geom.clientHeight = geom.scrollHeight
    /\ geom.scrollTop = 0
    /\ lastEvent = <<>>

\* C6: the loading indicator is visible only while the component is mounted
\* with isMediaLoading and hasMore true, and only after both were true for
\* SHOW_LOADING_PILL_DELAY_MS without a break.
C6_PillOnlyAfterDelay ==
    showLoadingPill =>
        /\ mounted
        /\ isMediaLoading
        /\ hasMore
        /\ loadingFor >= SHOW_LOADING_PILL_DELAY_MS

\* C6 witness: the indicator is visible.
C6_Witness == showLoadingPill /\ loadingFor >= SHOW_LOADING_PILL_DELAY_MS

\* A timer of t is due: no time passes before it has run.
Due(t) == t # <<>> /\ Head(t).rem = 0

\* C7: once isMediaLoading and hasMore were true for
\* SHOW_LOADING_PILL_DELAY_MS the indicator becomes visible at the expiry of
\* its timer, stays visible while both stay true, and is hidden by the commit
\* in which isMediaLoading becomes false.
C7_PillShownAfterDelay ==
    /\ [](/\ mounted
          /\ isMediaLoading
          /\ hasMore
          /\ loadingFor >= SHOW_LOADING_PILL_DELAY_MS
          => showLoadingPill \/ Due(pillTimer))
    /\ [][/\ (showLoadingPill /\ mounted' /\ isMediaLoading' /\ hasMore')
             => showLoadingPill'
          /\ (showLoadingPill /\ ~isMediaLoading') => ~showLoadingPill']_vars

\* C7 witness: the indicator became visible at the expiry of its timer.
C7_Witness ==
    /\ step = "PillFire"
    /\ showLoadingPill
    /\ loadingFor = SHOW_LOADING_PILL_DELAY_MS

\* C8: after the unmount no timer is pending, after a change of hasMore /
\* isMediaLoading / isMediaLoaded only the timers that commit armed are
\* pending, and no callback of an earlier render runs.
C8_TimersCancelled ==
    /\ ~mounted => (settleTimers = <<>> /\ debounceTimer = <<>> /\ pillTimer = <<>>)
    /\ step = "PropsChange" =>
          /\ settleTimers = Sleep(<<>>, CurrentClosure)
          /\ debounceTimer = <<>>
          /\ pillTimer \in {<<>>, PillEffectTimer(TRUE, TRUE)}
    /\ lastEval # <<>> => (mounted /\ lastEval[1].cb = CurrentClosure)

\* The debounce timeout is the one armed by the last event.
DebounceTracksLastEvent ==
    /\ Len(debounceTimer) <= 1
    /\ debounceTimer # <<>> =>
          /\ lastEvent # <<>>
          /\ debounceTimer[1].rem = DEBOUNCE_MS - lastEvent[1]
    /\ (lastEvent # <<>> /\ lastEvent[1] < DEBOUNCE_MS) => debounceTimer # <<>>
    /\ (lastEval # <<>> /\ lastEval[1].source = "debounce")
          => (step = "DebounceFire" /\ lastEvent = <<DEBOUNCE_MS>>)

SettleTimersRun ==
    /\ step' = "Tick" =>
          /\ \A i \in 1..Len(settleTimers) : settleTimers[i].rem > 0
          /\ settleTimers' = Advance(settleTimers, TimeUnit)
    /\ step' = "SettleFire" =>
          /\ settleTimers # <<>>
          /\ Head(settleTimers).rem = 0
          /\ settleTimers' = Tail(settleTimers)
          /\ lastEval' # <<>>
          /\ lastEval'[1].source = "settle"
          /\ lastEval'[1].cb = Head(settleTimers).cb
    /\ step' \in {"Scroll", "Resize", "Unmount", "DebounceFire", "PillFire"} =>
          settleTimers' = settleTimers

\* The commit of this step arms one sleep(200) for the callback it created.
ArmsOne ==
    settleTimers' = Append(settleTimers, [rem |-> SETTLE_MS, cb |-> CurrentClosure'])

\* C10 as claimed: every render arms one evaluation, SETTLE_MS later.
C10_Original ==
    [][/\ SettleTimersRun
       /\ step' \in {"PropsChange", "SetNextPageChange", "ResourcesChange",
                     "SearchChange"} => ArmsOne]_vars

\* C10 as amended: the mount and every render in which hasMore,
\* isMediaLoaded, isMediaLoading or setNextPage changed arm one evaluation,
\* SETTLE_MS later; a render in which only the result sequence, the search
\* term or the category changed arms none.
C10_SettleAfterCallbackChange ==
    /\ (step = "Mount" => settleTimers = <<[rem |-> SETTLE_MS, cb |-> CurrentClosure]>>)
    /\ [][/\ SettleTimersRun
          /\ step' \in {"PropsChange", "SetNextPageChange"} => ArmsOne
          /\ step' \in {"ResourcesChange", "SearchChange"} =>
                settleTimers' = settleTimers]_vars

\* C10 witness: the evaluation SETTLE_MS after a render that changed the
\* props, run by the callback of that render.
C10_Witness ==
    /\ step = "SettleFire"
    /\ mounted
    /\ lastEval # <<>>
    /\ lastEval[1].source = "settle"
    /\ lastEval[1].cb = CurrentClosure
    /\ settleTimers = <<>>

\* The last step was a commit of the mounted component.
Commits == {"PropsChange", "SetNextPageChange", "ResourcesChange", "SearchChange"}

\* C11: a commit in which searchTerm or selectedCategoryId changed leaves the
\* container at scroll offset 0 and its sizes alone; a commit in which
\* neither changed keeps the scroll offset, as far as it is still in range.
C11_ScrollReset ==
    [][/\ (step' = "SearchChange" /\ node') =>
             geom' = [geom EXCEPT !.scrollTop = 0]
       /\ step' \in {"PropsChange", "SetNextPageChange"} => geom' = geom
       /\ step' = "ResourcesChange" =>
             geom'.scrollTop =
                Min(geom.scrollTop, geom'.scrollHeight - geom'.clientHeight)]_vars

\* C11 witness: the commit of a new search term scrolled the container back
\* from a lower position (the scroll event of the reset was dispatched).
C11_Witness ==
    /\ step = "SearchChange"
    /\ geom.scrollTop = 0
    /\ geom.scrollHeight > geom.clientHeight
    /\ lastEvent = <<0>>

\* C12: without a container ref every check is a no-op: an evaluation calls
\* setNextPage() never, no listener is attached and so no debounce timeout is
\* ever armed, and no commit scrolls or measures anything.
C12_NoRefNoOp ==
    /\ [](~node =>
            /\ lastEval # <<>> => lastEval[1].calls = 0
            /\ listeners = [scroll |-> 0, resize |-> 0]
            /\ mounted => (debounceTimer = <<>> /\ lastEvent = <<>>))
    /\ [][(~node /\ step' \in Commits) =>
             /\ geom' = geom
             /\ listeners' = listeners
             /\ UNCHANGED <<debounceTimer, lastEvent, outstanding>>]_vars

\* C12 witness: mounted without a ref, the evaluation of a callback that
\* would load (hasMore, loaded, not loading, container not full) ran.
C12_Witness ==
    /\ mounted
    /\ ~node
    /\ lastEval # <<>>
    /\ lastEval[1].cb = Closure(TRUE, TRUE, FALSE)
    /\ lastEval[1].calls = 0

\* C13: while the component is mounted on a container exactly one scroll and
\* one resize listener are attached, and after the unmount none.
C13_ListenersPaired ==
    listeners =
        IF mounted /\ node THEN [scroll |-> 1, resize |-> 1]
        ELSE [scroll |-> 0, resize |-> 0]

\* C13 witness: the listeners are detached after an unmount that followed a
\* commit which attached them anew.
C13_Witness ==
    /\ step = "Unmount"
    /\ listeners = [scroll |-> 0, resize |-> 0]
    /\ Len(settleTimers) = 2

\* C16: an evaluation more than ROOT_MARGIN above the bottom of a container
\* with overflow calls setNextPage() never; at a distance of exactly
\* ROOT_MARGIN a callback that may load calls it once.
C16_MarginInclusive ==
    lastEval # <<>> =>
        /\ (Distance(geom) > ROOT_MARGIN /\ geom.clientHeight # geom.scrollHeight)
              => lastEval[1].calls = 0
        /\ (/\ node
            /\ lastEval[1].cb = Closure(TRUE, TRUE, FALSE)
            /\ Distance(geom) = ROOT_MARGIN) => lastEval[1].calls = 1

\* C16 witness: an evaluation one unit beyond the margin, by a callback that
\* may load, emitted nothing.
C16_Witness ==
    /\ lastEval # <<>>
    /\ node
    /\ lastEval[1].cb = Closure(TRUE, TRUE, FALSE)
    /\ Distance(geom) = ROOT_MARGIN + 1
    /\ lastEval[1].calls = 0

\* C19: a container without overflow is always within the margin of its
\* bottom, so an evaluation calls setNextPage() at most once and never from
\* the branch that tests clientHeight === scrollHeight.
C19_NotFullSubsumed ==
    /\ geom.scrollTop >= 0
    /\ (geom.clientHeight = geom.scrollHeight) => Bottom(geom)
    /\ lastEval # <<>> =>
          /\ lastEval[1].calls <= 1
          /\ Branch(lastEval[1].cb, node, geom) # "notFull"

\* C19 witness: the signal of a container without overflow came from the
\* near-bottom branch.
C19_Witness ==
    /\ Emitted
    /\ geom.clientHeight = geom.scrollHeight
    /\ Branch(lastEval[1].cb, node, geom) = "bottom"

\* C20: after the unmount no evaluation calls setNextPage().
C20_NoSignalAfterUnmount == ~mounted => ~Emitted

\* C20 witness: a sleep(200) armed before the unmount ran afterwards, with a
\* callback that may load, near the bottom, and emitted nothing.
C20_Witness ==
    /\ ~mounted
    /\ lastEval # <<>>
    /\ lastEval[1].source = "settle"
    /\ lastEval[1].cb = Closure(TRUE, TRUE, FALSE)
    /\ Distance(geom) <= ROOT_MARGIN
    /\ lastEval[1].calls = 0

\* A commit in which a page load completes: isMediaLoading goes from true to
\* false with isMediaLoaded true, and more pages remain.
LoadCompletes ==
    /\ step' = "PropsChange"
    /\ isMediaLoading
    /\ ~isMediaLoading'
    /\ isMediaLoaded'
    /\ hasMore'

\* C15: the commit that completes a page load while hasMore is true arms a
\* sleep(200) with the callback of that render; when it is due, on a container
\* that is present and still without overflow, its evaluation calls
\* setNextPage() without any scroll or resize event; the evaluation of a
\* callback created with hasMore false, or on content that extends more than
\* ROOT_MARGIN past the visible bottom, calls it never.
C15_UnderFullKeepsLoading ==
    [][/\ LoadCompletes =>
             /\ settleTimers' # <<>>
             /\ settleTimers'[Len(settleTimers')] =
                   [rem |-> SETTLE_MS, cb |-> Closure(TRUE, TRUE, FALSE)]
       /\ step' = "SettleFire" =>
             /\ Head(settleTimers).rem = 0
             /\ lastEval' # <<>>
             /\ UNCHANGED <<lastEvent, debounceTimer>>
             /\ (/\ Head(settleTimers).cb = Closure(TRUE, TRUE, FALSE)
                 /\ node
                 /\ NotFull(geom)) => lastEval'[1].calls = 1
             /\ (\/ ~Head(settleTimers).cb.hasMore
                 \/ Distance(geom) > ROOT_MARGIN) => lastEval'[1].calls = 0]_vars

\* C15 witness: a load has just completed on a container without overflow
\* (the sleep(200) of the render that started the load is still pending in
\* front of the one this commit armed), and no scroll or resize event was
\* ever handled.
C15_Witness ==
    /\ step = "PropsChange"
    /\ node
    /\ NotFull(geom)
    /\ lastEvent = <<>>
    /\ Len(settleTimers) = 2
    /\ settleTimers[1].cb.isMediaLoading
    /\ settleTimers[2] = [rem |-> SETTLE_MS, cb |-> Closure(TRUE, TRUE, FALSE)]

\* C14: whenever the measured scrollbar width changes, also back to 0, the
\* right padding of the container is set to padding-left minus the new width.
C14_PaddingFollowsScrollbar ==
    [][scrollbarWidth' # scrollbarWidth /\ mounted' =>
          paddingRight' = <<PaddingLeft - scrollbarWidth'>>]_vars

\* The width the fit of the font size is computed for.
FitWidth == IF call[1].newWidth = 0 THEN textElement[1].width ELSE call[1].newWidth

\* C17: updateForResizeEvent with direction[1] non-zero returns exactly
\* fontSize and skipUpdates, whatever direction[0] is, and the font size is
\* fitted to the element's own width if newWidth is missing; with only
\* direction[0] non-zero it returns exactly height; with both zero, null.
C17_HeightTakesPrecedence ==
    call # <<>> =>
        LET direction == call[1].direction
        IN  /\ direction[2] # 0 =>
                  /\ result # <<>>
                  /\ DOMAIN result[1] = {"fontSize", "skipUpdates"}
                  /\ result[1].fontSize =
                        DataPixels(CalculateFitTextFontSize(
                            textElement[1], FitWidth, call[1].newHeight))
            /\ (direction[2] = 0 /\ direction[1] # 0) =>
                  /\ result # <<>>
                  /\ DOMAIN result[1] = {"height"}
                  /\ result[1].height =
                        DataPixels(CalculateTextHeight(textElement[1], call[1].newWidth))
            /\ (direction[2] = 0 /\ direction[1] = 0) => result = <<>>

\* C17 witness: a diagonal resize without newWidth returned the font size
\* fitted to the element's width, which differs for this element from the
\* one fitted to the other width.
C17_Witness ==
    /\ call # <<>>
    /\ call[1].direction = <<1, 1>>
    /\ call[1].newWidth = 0
    /\ result # <<>>
    /\ DOMAIN result[1] = {"fontSize", "skipUpdates"}
    /\ result[1].fontSize =
          DataPixels(textElement[1].fit[<<textElement[1].width, call[1].newHeight>>])
    /\ \E w \in NewWidths \ {0} :
          DataPixels(textElement[1].fit[<<w, call[1].newHeight>>]) # result[1].fontSize

\* C18: skipUpdates is true exactly when a delta is given, delta[0] +
\* delta[1] <= 0, and the fitted font size in data pixels is below
\* resizeRules.minFontSize.
C18_SkipUpdates ==
    (call # <<>> /\ call[1].direction[2] # 0) =>
        LET delta == call[1].delta
            fontSizeInDataPx ==
                DataPixels(CalculateFitTextFontSize(
                    textElement[1], FitWidth, call[1].newHeight))
        IN  /\ result # <<>>
            /\ result[1].skipUpdates =
                  (/\ delta # <<>>
                   /\ delta[1] + delta[2] <= 0
                   /\ fontSizeInDataPx < MinFontSize)

\* C18 witness: a zero delta with a font size below the minimum skips the
\* updates.
C18_Witness ==
    /\ call # <<>>
    /\ call[1].direction[2] # 0
    /\ call[1].delta = <<0, 0>>
    /\ result # <<>>
    /\ result[1].fontSize < MinFontSize
    /\ result[1].skipUpdates

=============================================================================
